---- MODULE Spec2Model ----
(***************************************************************************)
(* itestcontainer: a runner shim that turns its flags into one             *)
(* testcontainers.Run call, waits for SIGINT/SIGTERM and terminates the    *)
(* container.  Strings are sequences of one-character strings.  The main   *)
(* goroutine, the shutdown goroutine, signal delivery and the external     *)
(* runtime's answers are the actions; the flag parsing, the volume naming  *)
(* and SHA-256 are operators computed as the code computes them.           *)
(***************************************************************************)
EXTENDS Integers, Sequences, FiniteSets, TLC

VARIABLES
    name,          \* --name flag
    volume,        \* --volume flag
    env,           \* --env flag
    ports,         \* --ports flag
    labels,        \* --labels flag
    osenv,         \* the tool's own environment: variable name -> value
    testTarget,    \* os.Getenv("TEST_TARGET")
    mainpc,        \* position of main
    gpc,           \* position of the shutdown goroutine
    proc,          \* "running", or how the process ended
    sigRegistered, \* signal.NotifyContext is relaying SIGINT/SIGTERM
    firstSignal,   \* "no", or where the shutdown goroutine was (gpc) when
                   \* the first SIGINT/SIGTERM reached the process
    ctxDone,       \* ctx.Done() is closed
    wg,            \* sync.WaitGroup counter
    exposedPorts,  \* locals of main
    environment,
    mounts,
    labelMap,
    runCalls,      \* number of testcontainers.Run calls made
    runResult,     \* "none"; "pending" or "cancelled" (ctx was) during the
                   \* testcontainers.Run call; "ok" or "err" once it returned
    runArgs,       \* options handed to testcontainers.Run
    c,             \* container returned by testcontainers.Run
    termCalls,     \* number of testcontainers.TerminateContainer calls made
    termArg,       \* container handed to TerminateContainer
    pairTarget,    \* TEST_TARGET of each of two runs given the same --volume
    pairMounts     \* the volume mounts each of the two runs derived

vars == <<name, volume, env, ports, labels, osenv, testTarget, mainpc, gpc,
          proc, sigRegistered, firstSignal, ctxDone, wg, exposedPorts,
          environment, mounts, labelMap, runCalls, runResult, runArgs, c, termCalls,
          termArg, pairTarget, pairMounts>>

flagVars == <<name, volume, env, ports, labels, osenv, testTarget>>
localVars == <<exposedPorts, environment, mounts, labelMap>>
pairVars == <<pairTarget, pairMounts>>

----------------------------------------------------------------------------
(* Bounds of the checked instances.                                        *)

MaxEnvLen == 3        \* longest --env flag of SpecEnv
MaxVolumeLen == 5     \* longest --volume flag of SpecVolume
MaxPairLen == 3       \* longest --volume flag of SpecPair
MaxTargetLen == 1     \* longest TEST_TARGET of the other specifications
MaxPairTargetLen == 2 \* longest TEST_TARGET of SpecPair

\* All strings over alphabet a of length at most n.
Strings(a, n) == UNION {[1..k -> a] : k \in 0..n}

EnvNames == {<<"A">>, <<"B">>}
EnvValues == {<<>>, <<"x">>, <<"y">>}
Targets == Strings({"a", "b"}, MaxTargetLen)
PairTargets == Strings({"a", "b"}, MaxPairTargetLen)

----------------------------------------------------------------------------
(* strings.SplitSeq, strings.SplitN, os.Getenv                             *)

\* Index of the first sep in s at or after i, 0 when there is none.
RECURSIVE IndexFrom(_, _, _)
IndexFrom(s, sep, i) ==
    IF i > Len(s) THEN 0
    ELSE IF s[i] = sep THEN i
    ELSE IndexFrom(s, sep, i + 1)

\* strings.SplitSeq(s, sep): every substring between separators, the empty
\* ones included; one empty substring for the empty string.
RECURSIVE SplitSeq(_, _)
SplitSeq(s, sep) ==
    LET i == IndexFrom(s, sep, 1)
    IN  IF i = 0 THEN <<s>>
        ELSE <<SubSeq(s, 1, i - 1)>> \o SplitSeq(SubSeq(s, i + 1, Len(s)), sep)

\* strings.SplitN(s, sep, 2): cut at the first separator only.
SplitN2(s, sep) ==
    LET i == IndexFrom(s, sep, 1)
    IN  IF i = 0 THEN <<s>>
        ELSE <<SubSeq(s, 1, i - 1), SubSeq(s, i + 1, Len(s))>>

\* The loops' `if x == "" { continue }`.
RECURSIVE NonEmpty(_)
NonEmpty(q) ==
    IF q = <<>> THEN <<>>
    ELSE IF Head(q) = <<>> THEN NonEmpty(Tail(q))
    ELSE <<Head(q)>> \o NonEmpty(Tail(q))

\* os.Getenv: the empty string for a variable that is not set.
Getenv(e, k) == IF k \in DOMAIN e THEN e[k] ELSE <<>>

----------------------------------------------------------------------------
(* crypto/sha256 and encoding/hex.  A 32-bit word is a pair <<hi, lo>> of  *)
(* 16-bit halves.                                                          *)

Ord(ch) == CASE ch = "a" -> 97 [] ch = "b" -> 98

Bytes(str) == [i \in 1..Len(str) |-> Ord(str[i])]

\* 2^n for n in 0..16.
Pow2(n) ==
    <<1, 2, 4, 8, 16, 32, 64, 128, 256, 512, 1024, 2048, 4096, 8192, 16384,
      32768, 65536>>[n + 1]

\* Bitwise exclusive or and bitwise and of two n-bit numbers, n a power of
\* two, by halves.
RECURSIVE XorBits(_, _, _)
XorBits(a, b, n) ==
    IF n = 1 THEN (a + b) % 2
    ELSE LET h == n \div 2
             m == Pow2(h)
         IN  XorBits(a % m, b % m, h) + m * XorBits(a \div m, b \div m, h)

RECURSIVE AndBits(_, _, _)
AndBits(a, b, n) ==
    IF n = 1 THEN a * b
    ELSE LET h == n \div 2
             m == Pow2(h)
         IN  AndBits(a % m, b % m, h) + m * AndBits(a \div m, b \div m, h)

Xor16(a, b) == XorBits(a, b, 16)
And16(a, b) == AndBits(a, b, 16)

WXor(u, v) == <<Xor16(u[1], v[1]), Xor16(u[2], v[2])>>
WXor3(u, v, x) ==
    <<Xor16(Xor16(u[1], v[1]), x[1]), Xor16(Xor16(u[2], v[2]), x[2])>>
WAnd(u, v) == <<And16(u[1], v[1]), And16(u[2], v[2])>>
WNot(u) == <<65535 - u[1], 65535 - u[2]>>

\* Addition modulo 2^32.
WAdd(u, v) ==
    LET lo == u[2] + v[2]
        hi == u[1] + v[1] + (lo \div 65536)
    IN  <<hi % 65536, lo % 65536>>

\* The sum modulo 2^32 of the words of the sequence q.
WSum(q) ==
    LET lo == IF Len(q) = 4 THEN q[1][2] + q[2][2] + q[3][2] + q[4][2]
              ELSE q[1][2] + q[2][2] + q[3][2] + q[4][2] + q[5][2]
        hi == IF Len(q) = 4 THEN q[1][1] + q[2][1] + q[3][1] + q[4][1]
              ELSE q[1][1] + q[2][1] + q[3][1] + q[4][1] + q[5][1]
    IN  <<(hi + (lo \div 65536)) % 65536, lo % 65536>>

RotR(u, n) ==
    LET w == IF n >= 16 THEN <<u[2], u[1]>> ELSE u
        m == IF n >= 16 THEN n - 16 ELSE n
        p == Pow2(m)
        q == Pow2(16 - m)
    IN  <<(w[1] \div p) + (w[2] % p) * q, (w[2] \div p) + (w[1] % p) * q>>

ShR(u, n) ==
    IF n >= 16 THEN <<0, u[1] \div Pow2(n - 16)>>
    ELSE LET p == Pow2(n)
             q == Pow2(16 - n)
         IN  <<u[1] \div p, (u[2] \div p) + (u[1] % p) * q>>

K256 == <<
    <<17034, 12184>>, <<28983, 17553>>, <<46528, 64463>>, <<59829, 56229>>,
    <<14678, 49755>>, <<23025, 4593>>, <<37439, 33444>>, <<43804, 24277>>,
    <<55303, 43672>>, <<4739, 23297>>, <<9265, 34238>>, <<21772, 32195>>,
    <<29374, 23924>>, <<32990, 45566>>, <<39900, 1703>>, <<49563, 61812>>,
    <<58523, 27073>>, <<61374, 18310>>, <<4033, 40390>>, <<9228, 41420>>,
    <<11753, 11375>>, <<19060, 33962>>, <<23728, 43484>>, <<30457, 35034>>,
    <<38974, 20818>>, <<43057, 50797>>, <<45059, 10184>>, <<48985, 32711>>,
    <<50912, 3059>>, <<54695, 37191>>, <<1738, 25425>>, <<5161, 10599>>,
    <<10167, 2693>>, <<11803, 8504>>, <<19756, 28156>>, <<21304, 3347>>,
    <<25866, 29524>>, <<30314, 2747>>, <<33218, 51502>>, <<37490, 11397>>,
    <<41663, 59553>>, <<43034, 26187>>, <<49739, 35696>>, <<51052, 20899>>,
    <<53650, 59417>>, <<54937, 1572>>, <<62478, 13701>>, <<4202, 41072>>,
    <<6564, 49430>>, <<7735, 27656>>, <<10056, 30540>>, <<13488, 48309>>,
    <<14620, 3251>>, <<20184, 43594>>, <<23452, 51791>>, <<26670, 28659>>,
    <<29839, 33518>>, <<30885, 25455>>, <<33992, 30740>>, <<36039, 520>>,
    <<37054, 65530>>, <<42064, 27883>>, <<48889, 41975>>, <<50801, 30962>> >>

H256 == <<
    <<27145, 58983>>, <<47975, 44677>>, <<15470, 62322>>, <<42319, 62778>>,
    <<20750, 21119>>, <<39685, 26764>>, <<8067, 55723>>, <<23520, 52505>> >>

BigSigma0(u) == WXor3(RotR(u, 2), RotR(u, 13), RotR(u, 22))
BigSigma1(u) == WXor3(RotR(u, 6), RotR(u, 11), RotR(u, 25))
SmallSigma0(u) == WXor3(RotR(u, 7), RotR(u, 18), ShR(u, 3))
SmallSigma1(u) == WXor3(RotR(u, 17), RotR(u, 19), ShR(u, 10))
Ch(e, f, g) == WXor(WAnd(e, f), WAnd(WNot(e), g))
Maj(x, y, z) == WXor3(WAnd(x, y), WAnd(x, z), WAnd(y, z))

Zeros(n) == [i \in 1..n |-> 0]

\* The message, 0x80, zeros up to 56 mod 64, the bit length in 64 bits.
Pad(bytes) ==
    LET l == Len(bytes)
        z == (119 - l) % 64
        bits == 8 * l
    IN  bytes \o <<128>> \o Zeros(z) \o Zeros(4)
        \o <<(bits \div 16777216) % 256, (bits \div 65536) % 256,
             (bits \div 256) % 256, bits % 256>>

\* The sixteen big-endian words of block b (from 0) of the padded message.
BlockWords(p, b) ==
    [i \in 1..16 |->
        LET o == 64 * b + 4 * (i - 1)
        IN  <<256 * p[o + 1] + p[o + 2], 256 * p[o + 3] + p[o + 4]>>]

\* The message schedule: w, which holds words 1..lo-1, extended by words
\* lo..hi.  (Halving the range, and the test on the first half that makes
\* TLC compute it before the second, keep TLC's evaluation shallow.)
RECURSIVE Schedule(_, _, _)
Schedule(w, lo, hi) ==
    IF lo = hi
    THEN Append(w, WSum(<<SmallSigma1(w[lo - 2]), w[lo - 7],
                          SmallSigma0(w[lo - 15]), w[lo - 16]>>))
    ELSE LET mid == (lo + hi) \div 2
             left == Schedule(w, lo, mid)
         IN  IF Len(left) = mid THEN Schedule(left, mid + 1, hi) ELSE left

\* Rounds lo..hi of the compression function on the working variables s.
RECURSIVE Rounds(_, _, _, _)
Rounds(s, w, lo, hi) ==
    IF lo = hi
    THEN LET t1 == WSum(<<s[8], BigSigma1(s[5]), Ch(s[5], s[6], s[7]),
                           K256[lo], w[lo]>>)
             t2 == WAdd(BigSigma0(s[1]), Maj(s[1], s[2], s[3]))
         IN  <<WAdd(t1, t2), s[1], s[2], s[3],
               WAdd(s[4], t1), s[5], s[6], s[7]>>
    ELSE LET mid == (lo + hi) \div 2
             left == Rounds(s, w, lo, mid)
         IN  IF Len(left) = 8 THEN Rounds(left, w, mid + 1, hi) ELSE left

Compress(h, w) ==
    LET ws == Schedule(w, 17, 64)
        s == IF Len(ws) = 64 THEN Rounds(h, ws, 1, 64) ELSE h
    IN  [i \in 1..8 |-> WAdd(h[i], s[i])]

RECURSIVE Blocks(_, _, _)
Blocks(h, p, b) ==
    IF 64 * b >= Len(p) THEN h
    ELSE Blocks(Compress(h, BlockWords(p, b)), p, b + 1)

\* sha256: the 32 bytes of the digest.
Sum256(bytes) ==
    LET h == Blocks(H256, Pad(bytes), 0)
    IN  [i \in 1..32 |->
            LET u == h[((i - 1) \div 4) + 1]
                k == (i - 1) % 4
            IN  IF k = 0 THEN u[1] \div 256
                ELSE IF k = 1 THEN u[1] % 256
                ELSE IF k = 2 THEN u[2] \div 256
                ELSE u[2] % 256]

HexDigits == <<"0", "1", "2", "3", "4", "5", "6", "7",
               "8", "9", "a", "b", "c", "d", "e", "f">>

\* hex.EncodeToString
EncodeToString(bytes) ==
    [i \in 1..(2 * Len(bytes)) |->
        LET v == bytes[(i + 1) \div 2]
        IN  IF i % 2 = 1 THEN HexDigits[(v \div 16) + 1]
            ELSE HexDigits[(v % 16) + 1]]

\* The digests of the TEST_TARGET values of the checked instances, computed
\* once.
HexDigests ==
    {<<t, EncodeToString(Sum256(Bytes(t)))>> : t \in Targets \cup PairTargets}

HexDigest(t) == (CHOOSE d \in HexDigests : d[1] = t)[2]

----------------------------------------------------------------------------
(* The values main derives from the flags.                                 *)

Prefix == <<"b", "a", "z", "e", "l", "-", "i", "t", "e", "s", "t", "-">>

\* exposedPorts: the non-empty comma-separated entries of --ports.
ExposedPorts(p) == NonEmpty(SplitSeq(p, ","))

\* The names --env lists.
EnvKeys(e) == NonEmpty(SplitSeq(e, ","))

\* Variant of MissingEnv: the value is never checked.
MissingEnvUnchecked(e, os) == FALSE

\* Some listed name has no (or an empty) value: log.Fatalf.
MissingEnv(e, os) ==
    \E i \in 1..Len(EnvKeys(e)) : Getenv(os, EnvKeys(e)[i]) = <<>>

\* environment[envVar] = value
EnvValue(os, k) == Getenv(os, k)

Environment(e, os) ==
    [k \in {EnvKeys(e)[i] : i \in 1..Len(EnvKeys(e))} |-> EnvValue(os, k)]

\* Variant of Suffix: hasher.Write is left out.
SuffixNothingWritten(t) == IF t # <<>> THEN HexDigest(<<>>) ELSE <<>>

\* suffix: the hex SHA-256 of TEST_TARGET, empty when TEST_TARGET is.
Suffix(t) == IF t # <<>> THEN HexDigest(t) ELSE <<>>

\* Variant of VolumeName: the two-part format, whatever the suffix.
VolumeNameAlwaysDashed(n, suffix) == Prefix \o n \o <<"-">> \o suffix

\* volumeName
VolumeName(n, suffix) ==
    IF suffix # <<>> THEN Prefix \o n \o <<"-">> \o suffix
    ELSE Prefix \o n

VolumeEntries(v) == NonEmpty(SplitSeq(v, ","))

\* parts[1] of an entry without ":" is an index out of range: a panic.
VolumePanics(v) ==
    \E i \in 1..Len(VolumeEntries(v)) : Len(SplitN2(VolumeEntries(v)[i], ":")) < 2

ContainerMount(entry, suffix) ==
    LET parts == SplitN2(entry, ":")
    IN  [Source |-> VolumeName(parts[1], suffix), Target |-> parts[2]]

Mounts(v, suffix) ==
    [i \in 1..Len(VolumeEntries(v)) |-> ContainerMount(VolumeEntries(v)[i], suffix)]

LabelEntries(l) == NonEmpty(SplitSeq(l, ","))

\* pair[1] of a label without "=" is an index out of range: a panic.
LabelPanics(l) ==
    \E i \in 1..Len(LabelEntries(l)) : Len(SplitN2(LabelEntries(l)[i], "=")) < 2

\* labelMap[pair[0]] = pair[1]: a later entry overwrites an earlier one.
LabelMap(l) ==
    LET q == LabelEntries(l)
        pair(i) == SplitN2(q[i], "=")
        last(k) == CHOOSE i \in 1..Len(q) :
                       /\ pair(i)[1] = k
                       /\ \A j \in (i + 1)..Len(q) : pair(j)[1] # k
    IN  [k \in {pair(i)[1] : i \in 1..Len(q)} |-> pair(last(k))[2]]

NoMap == [k \in {} |-> <<>>]
NoArgs == [image |-> <<>>, ports |-> <<>>, env |-> NoMap, mounts |-> <<>>,
           labels |-> NoMap]

----------------------------------------------------------------------------
(* Initial states: the process as it enters main, for a choice of flags    *)
(* and environment.                                                        *)

InitOf(names, envs, vols, portss, labelss, oss, targets) ==
    /\ name \in names
    /\ env \in envs
    /\ volume \in vols
    /\ ports \in portss
    /\ labels \in labelss
    /\ osenv \in oss
    /\ testTarget \in targets
    /\ mainpc = "start"
    /\ gpc = "none"
    /\ proc = "running"
    /\ sigRegistered = FALSE
    /\ firstSignal = "no"
    /\ ctxDone = FALSE
    /\ wg = 0
    /\ exposedPorts = <<>>
    /\ environment = NoMap
    /\ mounts = <<>>
    /\ labelMap = NoMap
    /\ runCalls = 0
    /\ runResult = "none"
    /\ runArgs = NoArgs
    /\ c = "nil"
    /\ termCalls = 0
    /\ termArg = "nil"

Image == <<"i">>

Init ==
    /\ InitOf({<<>>, Image},
              {<<>>, <<"A">>},
              {<<>>, <<"v">>, <<"v", ":">>},
              {<<>>, <<"p">>},
              {<<>>, <<"k">>, <<"k", "=">>},
              [EnvNames -> {<<>>, <<"x">>}],
              {<<>>, <<"a">>})
    /\ pairTarget = <<>>
    /\ pairMounts = <<>>

----------------------------------------------------------------------------
(* main                                                                    *)

\* Variant of CheckName: the flag is not checked.
CheckNameMissing ==
    /\ proc = "running"
    /\ mainpc = "start"
    /\ mainpc' = "notify"
    /\ UNCHANGED <<flagVars, localVars, pairVars, gpc, proc, sigRegistered,
                   firstSignal, ctxDone, wg, runCalls, runResult, runArgs, c,
                   termCalls, termArg>>

\* if *name == "" { log.Fatal }
CheckName ==
    /\ proc = "running"
    /\ mainpc = "start"
    /\ IF name = <<>>
       THEN proc' = "fatal" /\ UNCHANGED mainpc
       ELSE mainpc' = "notify" /\ UNCHANGED proc
    /\ UNCHANGED <<flagVars, localVars, pairVars, gpc, sigRegistered, firstSignal,
                   ctxDone, wg, runCalls, runResult, runArgs, c, termCalls,
                   termArg>>

\* ctx, stop := signal.NotifyContext(...); wg := sync.WaitGroup{}
NotifyContext ==
    /\ proc = "running"
    /\ mainpc = "notify"
    /\ sigRegistered' = TRUE
    /\ wg' = 0
    /\ mainpc' = "ports"
    /\ UNCHANGED <<flagVars, localVars, pairVars, gpc, proc, firstSignal,
                   ctxDone, runCalls, runResult, runArgs, c, termCalls, termArg>>

ParsePorts ==
    /\ proc = "running"
    /\ mainpc = "ports"
    /\ exposedPorts' = ExposedPorts(ports)
    /\ mainpc' = "env"
    /\ UNCHANGED <<flagVars, environment, mounts, labelMap, pairVars, gpc, proc,
                   sigRegistered, firstSignal, ctxDone, wg, runCalls, runResult,
                   runArgs, c, termCalls, termArg>>

ParseEnv ==
    /\ proc = "running"
    /\ mainpc = "env"
    /\ IF MissingEnv(env, osenv)
       THEN proc' = "fatal" /\ UNCHANGED <<mainpc, environment>>
       ELSE /\ environment' = Environment(env, osenv)
            /\ mainpc' = "volume"
            /\ UNCHANGED proc
    /\ UNCHANGED <<flagVars, exposedPorts, mounts, labelMap, pairVars, gpc,
                   sigRegistered, firstSignal, ctxDone, wg, runCalls, runResult,
                   runArgs, c, termCalls, termArg>>

ParseVolume ==
    /\ proc = "running"
    /\ mainpc = "volume"
    /\ IF VolumePanics(volume)
       THEN proc' = "panic" /\ UNCHANGED <<mainpc, mounts>>
       ELSE /\ mounts' = Mounts(volume, Suffix(testTarget))
            /\ mainpc' = "labels"
            /\ UNCHANGED proc
    /\ UNCHANGED <<flagVars, exposedPorts, environment, labelMap, pairVars, gpc,
                   sigRegistered, firstSignal, ctxDone, wg, runCalls, runResult,
                   runArgs, c, termCalls, termArg>>

ParseLabels ==
    /\ proc = "running"
    /\ mainpc = "labels"
    /\ IF LabelPanics(labels)
       THEN proc' = "panic" /\ UNCHANGED <<mainpc, labelMap>>
       ELSE /\ labelMap' = LabelMap(labels)
            /\ mainpc' = "run"
            /\ UNCHANGED proc
    /\ UNCHANGED <<flagVars, exposedPorts, environment, mounts, pairVars, gpc,
                   sigRegistered, firstSignal, ctxDone, wg, runCalls, runResult,
                   runArgs, c, termCalls, termArg>>

\* c, err := testcontainers.Run(ctx, *name, ...): the call is made
RunCall ==
    /\ proc = "running"
    /\ mainpc = "run"
    /\ runCalls' = runCalls + 1
    /\ runResult' = IF ctxDone THEN "cancelled" ELSE "pending"
    /\ runArgs' = [image |-> name, ports |-> exposedPorts, env |-> environment,
                   mounts |-> mounts, labels |-> labelMap]
    /\ mainpc' = "running"
    /\ UNCHANGED <<flagVars, localVars, pairVars, gpc, proc, sigRegistered,
                   firstSignal, ctxDone, wg, c, termCalls, termArg>>

\* the call returns a container; it cannot when ctx was cancelled before
\* the call was made
RunReturnOk ==
    /\ proc = "running"
    /\ mainpc = "running"
    /\ runResult = "pending"
    /\ c' = "container"
    /\ runResult' = "ok"
    /\ mainpc' = "spawn"
    /\ UNCHANGED <<flagVars, localVars, pairVars, gpc, proc, sigRegistered,
                   firstSignal, ctxDone, wg, runCalls, runArgs, termCalls, termArg>>

\* Variant of RunReturnErr: the call is made again.
RunReturnErrRetry ==
    /\ proc = "running"
    /\ mainpc = "running"
    /\ runResult' = "err"
    /\ mainpc' = "run"
    /\ UNCHANGED <<flagVars, localVars, pairVars, gpc, proc, sigRegistered,
                   firstSignal, ctxDone, wg, runCalls, runArgs, c, termCalls, termArg>>

\* Variant of RunReturnErr: err is not checked.
RunReturnErrIgnored ==
    /\ proc = "running"
    /\ mainpc = "running"
    /\ runResult' = "err"
    /\ mainpc' = "spawn"
    /\ UNCHANGED <<flagVars, localVars, pairVars, gpc, proc, sigRegistered,
                   firstSignal, ctxDone, wg, runCalls, runArgs, c, termCalls, termArg>>

\* the call returns an error (for any reason, a cancelled ctx included):
\* log.Fatalf
RunReturnErr ==
    /\ proc = "running"
    /\ mainpc = "running"
    /\ runResult' = "err"
    /\ proc' = "fatal"
    /\ UNCHANGED <<flagVars, localVars, pairVars, mainpc, gpc, sigRegistered,
                   firstSignal, ctxDone, wg, runCalls, runArgs, c, termCalls, termArg>>

\* wg.Add(1); go func() { ... }(); then the two log lines
SpawnShutdown ==
    /\ proc = "running"
    /\ mainpc = "spawn"
    /\ wg' = wg + 1
    /\ gpc' = "inspect"
    /\ mainpc' = "wait"
    /\ UNCHANGED <<flagVars, localVars, pairVars, proc, sigRegistered, firstSignal,
                   ctxDone, runCalls, runResult, runArgs, c, termCalls, termArg>>

\* <-ctx.Done() in main
MainWake ==
    /\ proc = "running"
    /\ mainpc = "wait"
    /\ ctxDone
    /\ mainpc' = "stop"
    /\ UNCHANGED <<flagVars, localVars, pairVars, gpc, proc, sigRegistered,
                   firstSignal, ctxDone, wg, runCalls, runResult, runArgs, c,
                   termCalls, termArg>>

\* stop(): the signals are no longer relayed (their default action is back)
\* and ctx is cancelled.
Stop ==
    /\ proc = "running"
    /\ mainpc = "stop"
    /\ sigRegistered' = FALSE
    /\ ctxDone' = TRUE
    /\ mainpc' = "wgwait"
    /\ UNCHANGED <<flagVars, localVars, pairVars, gpc, proc, firstSignal, wg,
                   runCalls, runResult, runArgs, c, termCalls, termArg>>

\* wg.Wait()
WgWait ==
    /\ proc = "running"
    /\ mainpc = "wgwait"
    /\ wg = 0
    /\ mainpc' = "logdone"
    /\ UNCHANGED <<flagVars, localVars, pairVars, gpc, proc, sigRegistered,
                   firstSignal, ctxDone, wg, runCalls, runResult, runArgs, c,
                   termCalls, termArg>>

\* log.Println("itestcontainer done")
LogDone ==
    /\ proc = "running"
    /\ mainpc = "logdone"
    /\ mainpc' = "done"
    /\ UNCHANGED <<flagVars, localVars, pairVars, gpc, proc, sigRegistered,
                   firstSignal, ctxDone, wg, runCalls, runResult, runArgs, c,
                   termCalls, termArg>>

\* main returns and the process exits with status 0.  While a goroutine is
\* panicking the Go runtime holds the return back and the panic ends the process.
MainReturn ==
    /\ proc = "running"
    /\ mainpc = "done"
    /\ gpc \notin {"panic", "fatalpanic"}
    /\ proc' = "exited"
    /\ UNCHANGED <<flagVars, localVars, pairVars, mainpc, gpc, sigRegistered,
                   firstSignal, ctxDone, wg, runCalls, runResult, runArgs, c,
                   termCalls, termArg>>

----------------------------------------------------------------------------
(* The shutdown goroutine                                                  *)

\* name := c.GetContainerID(); n, err := c.Inspect(ctx) with err == nil.
\* Inspect fails on a ctx that is already cancelled.
InspectOk ==
    /\ proc = "running"
    /\ gpc = "inspect"
    /\ ~ctxDone
    /\ gpc' = "ctxwait"
    /\ UNCHANGED <<flagVars, localVars, pairVars, mainpc, proc, sigRegistered,
                   firstSignal, ctxDone, wg, runCalls, runResult, runArgs, c,
                   termCalls, termArg>>

\* Inspect returns (nil, err): `if err != nil { name = n.Name }` dereferences
\* the nil n, a run-time panic in the goroutine.
InspectErr ==
    /\ proc = "running"
    /\ gpc = "inspect"
    /\ gpc' = "panic"
    /\ UNCHANGED <<flagVars, localVars, pairVars, mainpc, proc, sigRegistered,
                   firstSignal, ctxDone, wg, runCalls, runResult, runArgs, c,
                   termCalls, termArg>>

\* The panic runs the deferred wg.Done().
PanicDefer ==
    /\ proc = "running"
    /\ gpc = "panic"
    /\ wg' = wg - 1
    /\ gpc' = "fatalpanic"
    /\ UNCHANGED <<flagVars, localVars, pairVars, mainpc, proc, sigRegistered,
                   firstSignal, ctxDone, runCalls, runResult, runArgs, c,
                   termCalls, termArg>>

\* Nothing recovers the panic: the runtime prints it and exits with status 2.
PanicExit ==
    /\ proc = "running"
    /\ gpc = "fatalpanic"
    /\ proc' = "panic"
    /\ UNCHANGED <<flagVars, localVars, pairVars, mainpc, gpc, sigRegistered,
                   firstSignal, ctxDone, wg, runCalls, runResult, runArgs, c,
                   termCalls, termArg>>

\* Variant of ShutdownWake: the goroutine does not wait for ctx.
ShutdownWakeUnsignalled ==
    /\ proc = "running"
    /\ gpc = "ctxwait"
    /\ gpc' = "terminate"
    /\ UNCHANGED <<flagVars, localVars, pairVars, mainpc, proc, sigRegistered,
                   firstSignal, ctxDone, wg, runCalls, runResult, runArgs, c,
                   termCalls, termArg>>

\* <-ctx.Done() in the goroutine; log.Println("Stopping ", name)
ShutdownWake ==
    /\ proc = "running"
    /\ gpc = "ctxwait"
    /\ ctxDone
    /\ gpc' = "terminate"
    /\ UNCHANGED <<flagVars, localVars, pairVars, mainpc, proc, sigRegistered,
                   firstSignal, ctxDone, wg, runCalls, runResult, runArgs, c,
                   termCalls, termArg>>

\* testcontainers.TerminateContainer(c): the call is made
TerminateCall ==
    /\ proc = "running"
    /\ gpc = "terminate"
    /\ termCalls' = termCalls + 1
    /\ termArg' = c
    /\ gpc' = "terminating"
    /\ UNCHANGED <<flagVars, localVars, pairVars, mainpc, proc, sigRegistered,
                   firstSignal, ctxDone, wg, runCalls, runResult, runArgs, c>>

\* the call returns (its error is dropped); the goroutine ends and its
\* deferred wg.Done() runs
TerminateReturn ==
    /\ proc = "running"
    /\ gpc = "terminating"
    /\ gpc' = "done"
    /\ wg' = wg - 1
    /\ UNCHANGED <<flagVars, localVars, pairVars, mainpc, proc, sigRegistered,
                   firstSignal, ctxDone, runCalls, runResult, runArgs, c,
                   termCalls, termArg>>

----------------------------------------------------------------------------
(* Signals                                                                 *)

\* A SIGINT or SIGTERM reaches the process: NotifyContext cancels ctx while
\* it relays them; before it is set up and after stop() the default action
\* ends the process.
Signal ==
    /\ proc = "running"
    /\ firstSignal' = IF firstSignal = "no" THEN gpc ELSE firstSignal
    /\ IF sigRegistered
       THEN ctxDone' = TRUE /\ UNCHANGED proc
       ELSE proc' = "killed" /\ UNCHANGED ctxDone
    /\ UNCHANGED <<flagVars, localVars, pairVars, mainpc, gpc, sigRegistered,
                   wg, runCalls, runResult, runArgs, c, termCalls, termArg>>

Next ==
    \/ CheckName
    \/ NotifyContext
    \/ ParsePorts
    \/ ParseEnv
    \/ ParseVolume
    \/ ParseLabels
    \/ RunCall
    \/ RunReturnOk
    \/ RunReturnErr
    \/ SpawnShutdown
    \/ MainWake
    \/ Stop
    \/ WgWait
    \/ LogDone
    \/ MainReturn
    \/ InspectOk
    \/ InspectErr
    \/ PanicDefer
    \/ PanicExit
    \/ ShutdownWake
    \/ TerminateCall
    \/ TerminateReturn
    \/ Signal

Spec == Init /\ [][Next]_vars


----------------------------------------------------------------------------
(* The same program started on wider sets of flags.                        *)

InitEnv ==
    \/ Init
    \/ /\ InitOf({Image}, Strings({"A", "B", ","}, MaxEnvLen), {<<>>}, {<<>>},
                 {<<>>}, [EnvNames -> EnvValues], {<<>>})
       /\ pairTarget = <<>>
       /\ pairMounts = <<>>

SpecEnv == InitEnv /\ [][Next]_vars

InitVolume ==
    \/ Init
    \/ /\ InitOf({Image}, {<<>>}, Strings({"v", ":", ","}, MaxVolumeLen), {<<>>},
                 {<<>>}, [EnvNames -> {<<>>}], Targets)
       /\ pairTarget = <<>>
       /\ pairMounts = <<>>

SpecVolume == InitVolume /\ [][Next]_vars

----------------------------------------------------------------------------
(* Two runs of the tool given the same --volume flag, each with its own    *)
(* TEST_TARGET; of each run only the derivation of its volume mounts.      *)

Pending == [state |-> "pending", mounts |-> <<>>]

InitPair ==
    /\ InitOf({Image}, {<<>>}, Strings({"v", ":", ","}, MaxPairLen), {<<>>},
              {<<>>}, [EnvNames -> {<<>>}], {<<>>})
    /\ pairTarget \in [1..2 -> PairTargets]
    /\ pairMounts = [r \in 1..2 |-> Pending]

\* Run r derives its suffix and its mounts (or panics on a malformed entry).
PairParseVolume(r) ==
    /\ pairMounts[r].state = "pending"
    /\ pairMounts' =
         [pairMounts EXCEPT ![r] =
            IF VolumePanics(volume)
            THEN [state |-> "panic", mounts |-> <<>>]
            ELSE [state |-> "derived",
                  mounts |-> Mounts(volume, Suffix(pairTarget[r]))]]
    /\ UNCHANGED <<flagVars, localVars, pairTarget, mainpc, gpc, proc,
                   sigRegistered, firstSignal, ctxDone, wg, runCalls, runResult,
                   runArgs, c, termCalls, termArg>>

NextPair == \E r \in 1..2 : PairParseVolume(r)

SpecPair == InitPair /\ [][NextPair]_vars

----------------------------------------------------------------------------
(* What the flags say, read off the flag text by position (not by the      *)
(* splitting the program does).                                            *)

\* The positions that bound a comma-separated field of s.
Cuts(s) == {0, Len(s) + 1} \cup {i \in 1..Len(s) : s[i] = ","}

\* The non-empty fields of s, each as <<cut before, cut after>>.
Fields(s) ==
    {f \in Cuts(s) \X Cuts(s) :
        /\ f[1] + 1 < f[2]
        /\ \A i \in Cuts(s) : ~(f[1] < i /\ i < f[2])}

\* The k-th non-empty field of s, in flag order.
Field(s, k) ==
    LET f == CHOOSE g \in Fields(s) :
                 Cardinality({h \in Fields(s) : h[1] < g[1]}) = k - 1
    IN  SubSeq(s, f[1] + 1, f[2] - 1)

FirstColon(e) ==
    CHOOSE i \in 1..Len(e) : e[i] = ":" /\ \A j \in 1..(i - 1) : e[j] # ":"

Ended == proc # "running"

----------------------------------------------------------------------------
(* Claims                                                                  *)

\* C1: once testcontainers.Run has returned a container and a SIGINT/SIGTERM
\* has been received (with the shutdown goroutine not yet started, in Inspect
\* or waiting), the process does not end of its own accord unless
\* TerminateContainer was called and main reached "itestcontainer done".
C1_SignalLeadsToTerminate ==
    (/\ runResult = "ok"
     /\ firstSignal \in {"none", "inspect", "ctxwait"}
     /\ proc \in {"exited", "panic"})
        => (termCalls = 1 /\ mainpc = "done")

\* C2: main reaches "itestcontainer done" (and the exit that follows it) only
\* after the shutdown goroutine's TerminateContainer call has returned.
C2_DoneOnlyAfterTerminate ==
    (mainpc = "done" \/ proc = "exited") => gpc = "done"

\* C3: as long as no SIGINT/SIGTERM has been delivered, TerminateContainer is
\* not called, main is not past its wait and the process has not exited
\* normally.
C3_NoSignalNoShutdown ==
    firstSignal = "no" =>
        /\ termCalls = 0
        /\ gpc \notin {"terminate", "terminating", "done"}
        /\ mainpc \notin {"stop", "wgwait", "logdone", "done"}
        /\ proc # "exited"

\* The tool, started, blocked in both goroutines with no signal delivered.
C3_Witness ==
    /\ runResult = "ok"
    /\ firstSignal = "no"
    /\ mainpc = "wait"
    /\ gpc = "ctxwait"

\* C4: at most one testcontainers.Run call and at most one TerminateContainer
\* call are made, and the latter only on the container the former returned.
C4_SingleStartSingleStop ==
    /\ runCalls <= 1
    /\ termCalls <= 1
    /\ termCalls = 1 =>
         (runCalls = 1 /\ runResult = "ok" /\ c = "container" /\ termArg = c)

\* One start and one stop have been made.
C4_Witness == runCalls = 1 /\ termCalls = 1 /\ gpc = "done"

\* C5: the mounts handed to testcontainers.Run are, in flag order, one per
\* non-empty entry name:path of --volume, with target path and source
\* "bazel-itest-" + name, followed by "-" + hex(sha256(TEST_TARGET)) exactly
\* when TEST_TARGET is not empty.
C5_MountsFollowFlag ==
    runCalls > 0 =>
        /\ Len(runArgs.mounts) = Cardinality(Fields(volume))
        /\ \A k \in 1..Len(runArgs.mounts) :
             LET e == Field(volume, k)
                 n == SubSeq(e, 1, FirstColon(e) - 1)
                 m == runArgs.mounts[k]
             IN  /\ m.Target = SubSeq(e, FirstColon(e) + 1, Len(e))
                 /\ m.Source =
                      IF testTarget = <<>> THEN Prefix \o n
                      ELSE Prefix \o n \o <<"-">> \o HexDigest(testTarget)
                 /\ SubSeq(m.Source, 1, Len(Prefix)) = Prefix
                 /\ (Len(m.Source) > Len(Prefix) + Len(n)) <=> (testTarget # <<>>)

\* Two different mounts were handed over, with TEST_TARGET set.
C5_Witness ==
    /\ runCalls > 0
    /\ testTarget # <<>>
    /\ Len(runArgs.mounts) = 2
    /\ runArgs.mounts[1] # runArgs.mounts[2]

\* C6: two runs with the same --volume flag derive the same volume names when
\* their TEST_TARGETs are equal, and share no volume name when their
\* TEST_TARGETs are different and not empty.
C6_NamesIdentifyTarget ==
    (pairMounts # <<>> /\ \A r \in 1..2 : pairMounts[r].state = "derived") =>
        LET m1 == pairMounts[1].mounts
            m2 == pairMounts[2].mounts
        IN  /\ pairTarget[1] = pairTarget[2] => m1 = m2
            /\ (/\ pairTarget[1] # pairTarget[2]
                /\ pairTarget[1] # <<>>
                /\ pairTarget[2] # <<>>)
               => \A i \in 1..Len(m1), j \in 1..Len(m2) :
                      m1[i].Source # m2[j].Source

\* Both runs derived a volume name, from different non-empty TEST_TARGETs.
C6_Witness ==
    /\ pairMounts # <<>>
    /\ \A r \in 1..2 : pairMounts[r].state = "derived"
    /\ Len(pairMounts[1].mounts) >= 1
    /\ pairTarget[1] # pairTarget[2]
    /\ pairTarget[1] # <<>>
    /\ pairTarget[2] # <<>>

\* Some name listed in --env has no value in the tool's environment.
ListedEnvMissing ==
    \E k \in 1..Cardinality(Fields(env)) : Getenv(osenv, Field(env, k)) = <<>>

\* C7: the environment handed to testcontainers.Run holds exactly the
\* non-empty names --env lists, each with the value it has in the tool's own
\* environment; when a listed name has no value there the tool ends by its
\* fatal exit and never calls testcontainers.Run.
C7_EnvPassedThrough ==
    /\ runCalls > 0 =>
         /\ DOMAIN runArgs.env =
                {Field(env, k) : k \in 1..Cardinality(Fields(env))}
         /\ \A k \in DOMAIN runArgs.env :
                runArgs.env[k] = Getenv(osenv, k) /\ runArgs.env[k] # <<>>
    /\ ListedEnvMissing =>
         /\ runCalls = 0
         /\ mainpc \in {"start", "notify", "ports", "env"}
         /\ Ended => proc \in {"fatal", "killed"}
         /\ (Ended /\ sigRegistered) => proc = "fatal"

\* Two variables were passed through.
C7_Witness ==
    /\ runCalls > 0
    /\ Cardinality(DOMAIN runArgs.env) = 2

\* C8: with an empty --name the tool makes its fatal exit at once: no signal
\* handler is registered and neither testcontainers.Run nor
\* TerminateContainer is called.
C8_EmptyNameFatal ==
    name = <<>> =>
        /\ mainpc = "start"
        /\ ~sigRegistered
        /\ ~ctxDone
        /\ gpc = "none"
        /\ runCalls = 0
        /\ termCalls = 0
        /\ proc \in {"running", "fatal", "killed"}

C8_Witness == name = <<>> /\ proc = "fatal"

\* C9: when testcontainers.Run returns an error the tool makes its fatal exit
\* at once: the shutdown goroutine is not started, TerminateContainer is not
\* called and main never waits for a signal.
C9_RunErrorFatal ==
    runResult = "err" =>
        /\ proc = "fatal"
        /\ mainpc = "running"
        /\ gpc = "none"
        /\ wg = 0
        /\ termCalls = 0

\* Run failed after a signal had cancelled the context.
C9_Witness == runResult = "err" /\ ctxDone /\ proc = "fatal"

\* C10: once testcontainers.Run has returned a container, the process does
\* not end of its own accord with TerminateContainer not called, whether
\* Inspect succeeded or failed.
C10_EndsOnlyTerminated ==
    (runResult = "ok" /\ proc \in {"exited", "panic"}) => termCalls = 1

====
